---- MODULE Spec2Model ----
(***************************************************************************)
(* A model of the scatter-plot viewer (class Scatter, src/unnamed/part_000) *)
(* and of its host page (src/src/main.ts).                                  *)
(*                                                                          *)
(* Numbers.  Every number of the viewer is a JavaScript Number, an IEEE-754 *)
(* binary64.  The model computes with binary64 values exactly as the engine *)
(* does: a finite double is a record [neg, m, e] standing for               *)
(* (-1)^neg * m * 2^e, with m = 0 (zero; -0 and +0 are identified, the code *)
(* only ever compares them with ===, <, >= under which they are equal) or   *)
(* 2^52 <= m < 2^53.  The 53-bit significand does not fit the checker's     *)
(* 32-bit integers, so m is held as four base-2^14 limbs, least significant *)
(* first.  Every operation rounds to nearest, ties to even.  NaN and the    *)
(* infinities are never produced within the bounds of the model.            *)
(***************************************************************************)
EXTENDS Integers, Sequences, FiniteSets, TLC

(***************************************************************************)
(* Natural numbers wider than the checker's integers: tuples of limbs, base *)
(* 2^14, least significant first.                                           *)
(***************************************************************************)
LimbBits == 14
Base == 16384

Pow2(k) == 2^k

\* limb i (1-based) of the 5-limb natural x, 0 beyond its ends
LimbAt(x, i) == IF i >= 1 /\ i <= 5 THEN x[i] ELSE 0

\* carry (or borrow) propagation over five column sums
Carry5(c1, c2, c3, c4, c5) ==
  LET v2 == c2 + (c1 \div Base)
      v3 == c3 + (v2 \div Base)
      v4 == c4 + (v3 \div Base)
      v5 == c5 + (v4 \div Base)
  IN  <<c1 % Base, v2 % Base, v3 % Base, v4 % Base, v5>>

\* floor(x / 2^k) for a 5-limb x, k = 14 * q + r, lo = 2^r, hi = 2^(14 - r)
ShrBy(x, q, lo, hi) ==
  <<(LimbAt(x, 1 + q) \div lo) + (LimbAt(x, 2 + q) % lo) * hi,
    (LimbAt(x, 2 + q) \div lo) + (LimbAt(x, 3 + q) % lo) * hi,
    (LimbAt(x, 3 + q) \div lo) + (LimbAt(x, 4 + q) % lo) * hi,
    (LimbAt(x, 4 + q) \div lo) + (LimbAt(x, 5 + q) % lo) * hi,
    (LimbAt(x, 5 + q) \div lo)>>

\* floor(x / 2^k), for a 5-limb x
Shr5(x, k) == ShrBy(x, k \div LimbBits, Pow2(k % LimbBits), Pow2(LimbBits - (k % LimbBits)))

\* x * 2^k for a 5-limb x, k = 14 * q + r, lo = 2^r, hi = 2^(14 - r)
ShlBy(x, q, lo, hi) ==
  <<((LimbAt(x, 1 - q) * lo) % Base) + (LimbAt(x, 0 - q) \div hi),
    ((LimbAt(x, 2 - q) * lo) % Base) + (LimbAt(x, 1 - q) \div hi),
    ((LimbAt(x, 3 - q) * lo) % Base) + (LimbAt(x, 2 - q) \div hi),
    ((LimbAt(x, 4 - q) * lo) % Base) + (LimbAt(x, 3 - q) \div hi),
    ((LimbAt(x, 5 - q) * lo) % Base) + (LimbAt(x, 4 - q) \div hi)>>

\* x * 2^k, for a 5-limb x (the result fits 5 limbs)
Shl5(x, k) == ShlBy(x, k \div LimbBits, Pow2(k % LimbBits), Pow2(LimbBits - (k % LimbBits)))

\* whether the k low bits of the 5-limb x are all zero
LowZero5(x, k) ==
  /\ \A i \in 1..(k \div LimbBits) : x[i] = 0
  /\ LimbAt(x, (k \div LimbBits) + 1) % Pow2(k % LimbBits) = 0

\* bit k (from 0) of the 5-limb x
BitAt(x, k) == (LimbAt(x, (k \div LimbBits) + 1) \div Pow2(k % LimbBits)) % 2 = 1

\* x + y and x - y - borrow, limb by limb (x >= y + borrow)
Add5(x, y) == Carry5(x[1] + y[1], x[2] + y[2], x[3] + y[3], x[4] + y[4], x[5] + y[5])

Sub5(x, y, borrow) ==
  Carry5(x[1] - y[1] - borrow, x[2] - y[2], x[3] - y[3], x[4] - y[4], x[5] - y[5])

\* number of bits of a limb
IntBitLen(v) ==
  IF v >= 128
  THEN IF v >= 2048
       THEN IF v >= 8192 THEN (IF v >= 16384 THEN 15 ELSE 14) ELSE (IF v >= 4096 THEN 13 ELSE 12)
       ELSE IF v >= 512 THEN (IF v >= 1024 THEN 11 ELSE 10) ELSE (IF v >= 256 THEN 9 ELSE 8)
  ELSE IF v >= 8
       THEN IF v >= 32 THEN (IF v >= 64 THEN 7 ELSE 6) ELSE (IF v >= 16 THEN 5 ELSE 4)
       ELSE IF v >= 2 THEN (IF v >= 4 THEN 3 ELSE 2) ELSE v

\* number of significant bits of the 5-limb x
BitLen5(x) ==
  IF x[5] # 0 THEN 56 + IntBitLen(x[5])
  ELSE IF x[4] # 0 THEN 42 + IntBitLen(x[4])
  ELSE IF x[3] # 0 THEN 28 + IntBitLen(x[3])
  ELSE IF x[2] # 0 THEN 14 + IntBitLen(x[2])
  ELSE IntBitLen(x[1])

(***************************************************************************)
(* binary64                                                                 *)
(***************************************************************************)
Precision == 53
SinglePrecision == 24

FZero == [neg |-> FALSE, m |-> <<0, 0, 0, 0>>, e |-> 0]

FIsZero(a) == a.m = <<0, 0, 0, 0>>

Low4(x) == <<x[1], x[2], x[3], x[4]>>

\* the significand of a, as a 5-limb natural
Wide(a) == <<a.m[1], a.m[2], a.m[3], a.m[4], 0>>

\* the double with the p-bit significand r (or, after a carry, the p + 1 bits
\* 2^p) and exponent e
Renorm(neg, r, e, p) ==
  IF BitLen5(r) > p
  THEN [neg |-> neg, m |-> Low4(Shl5(Shr5(r, 1), Precision - p)), e |-> e + 1 - (Precision - p)]
  ELSE [neg |-> neg, m |-> Low4(Shl5(r, Precision - p)), e |-> e - (Precision - p)]

\* q * 2^e plus a dropped fraction: half is its first bit, more tells whether
\* anything nonzero lies below that bit.  Nearest, ties to even.
RoundQuot(neg, q, e, half, more, p) ==
  Renorm(neg,
         IF half /\ (q[1] % 2 = 1 \/ more)
         THEN Carry5(q[1] + 1, q[2], q[3], q[4], q[5])
         ELSE q,
         e, p)

\* x * 2^e of bit length L (sticky: a nonzero remainder below x) rounded to p bits
RoundLen(neg, x, e, sticky, p, L) ==
  IF L = 0 THEN FZero
  ELSE IF L <= p
  THEN [neg |-> neg, m |-> Low4(Shl5(x, Precision - L)), e |-> e - (Precision - L)]
  ELSE RoundQuot(neg, Shr5(x, L - p), e + (L - p), BitAt(x, L - p - 1),
                 sticky \/ ~LowZero5(x, L - p - 1), p)

\* x * 2^e (x a 5-limb natural; sticky: a nonzero remainder below x) rounded to
\* p significant bits, nearest, ties to even
RoundTo(neg, x, e, sticky, p) == RoundLen(neg, x, e, sticky, p, BitLen5(x))

FNeg(a) == IF FIsZero(a) THEN a ELSE [a EXCEPT !.neg = ~a.neg]

FAbs(a) == [a EXCEPT !.neg = FALSE]

\* x < y, for naturals of 4 limbs
Less4(x, y) ==
  IF x[4] # y[4] THEN x[4] < y[4]
  ELSE IF x[3] # y[3] THEN x[3] < y[3]
  ELSE IF x[2] # y[2] THEN x[2] < y[2]
  ELSE x[1] < y[1]

\* |a| < |b|
FMagLess(a, b) ==
  IF FIsZero(b) THEN FALSE
  ELSE IF FIsZero(a) THEN TRUE
  ELSE IF a.e # b.e THEN a.e < b.e
  ELSE Less4(a.m, b.m)

\* a < b
FLess(a, b) ==
  IF a.neg /\ ~b.neg THEN TRUE
  ELSE IF ~a.neg /\ b.neg THEN FALSE
  ELSE IF a.neg THEN FMagLess(b, a) ELSE FMagLess(a, b)

\* the sum of hi (8 * |hi| = X) and lo (8 * |lo| = Y0), d = hi.e - lo.e: lo is
\* shifted down to the scale of hi and the bits it loses are remembered as
\* sticky; when the signs differ, one unit is borrowed for the lost bits
AddAligned(hi, sameSign, X, Y0, d) ==
  RoundTo(hi.neg,
          IF sameSign THEN Add5(X, Shr5(Y0, d))
          ELSE Sub5(X, Shr5(Y0, d), IF LowZero5(Y0, d) THEN 0 ELSE 1),
          hi.e - 3, ~LowZero5(Y0, d), Precision)

\* hi + lo for nonzero |hi| >= |lo|.  Three more bits are enough to round the
\* exact sum correctly.
AddOrdered(hi, lo) ==
  IF hi.e - lo.e > 56 THEN hi    \* lo is below a quarter of hi's last place
  ELSE AddAligned(hi, hi.neg = lo.neg, Shl5(Wide(hi), 3), Shl5(Wide(lo), 3), hi.e - lo.e)

\* a + b
FAdd(a, b) ==
  IF FIsZero(a) THEN b
  ELSE IF FIsZero(b) THEN a
  ELSE IF FMagLess(a, b) THEN AddOrdered(b, a)
  ELSE AddOrdered(a, b)

\* a - b
FSub(a, b) == FAdd(a, FNeg(b))

\* the 8-limb product x * y of two 4-limb naturals: its five high limbs, and
\* whether the three low ones hold a nonzero bit
Mul4(x, y) ==
  LET v1 == x[1] * y[1]
      v2 == x[1] * y[2] + x[2] * y[1] + (v1 \div Base)
      v3 == x[1] * y[3] + x[2] * y[2] + x[3] * y[1] + (v2 \div Base)
      v4 == x[1] * y[4] + x[2] * y[3] + x[3] * y[2] + x[4] * y[1] + (v3 \div Base)
      v5 == x[2] * y[4] + x[3] * y[3] + x[4] * y[2] + (v4 \div Base)
      v6 == x[3] * y[4] + x[4] * y[3] + (v5 \div Base)
      v7 == x[4] * y[4] + (v6 \div Base)
  IN  [high |-> <<v4 % Base, v5 % Base, v6 % Base, v7 % Base, v7 \div Base>>,
       low  |-> v1 % Base # 0 \/ v2 % Base # 0 \/ v3 % Base # 0]

MulRound(neg, prod, e) == RoundTo(neg, prod.high, e, prod.low, Precision)

\* a * b
FMul(a, b) ==
  IF FIsZero(a) \/ FIsZero(b) THEN FZero
  ELSE MulRound(a.neg # b.neg, Mul4(a.m, b.m), a.e + b.e + 3 * LimbBits)

\* Long division, 7 quotient bits at a time.  For rem < 2 * d, 2^52 <= d < 2^53,
\* the digit floor(rem * 2^7 / d) is estimated from the leading bits of rem and d
\* (dT1: the 23 leading bits of d, plus one); the estimate is the digit or one below
\* it.  Gives the n next digits, most significant first, followed by an entry
\* telling whether a remainder is left.
RECURSIVE DivDigits(_, _, _, _)
DivDigits(rem, d, dT1, n) ==
  IF n = 0 THEN <<IF rem = <<0, 0, 0, 0>> THEN 0 ELSE 1>>
  ELSE LET remT == (rem[2] \div 512) + rem[3] * 32 + rem[4] * 524288
           qhat == remT \div dT1
           \* t = rem * 2^7 - qhat * d
           v1 == rem[1] * 128 - qhat * d[1]
           v2 == rem[2] * 128 - qhat * d[2] + (v1 \div Base)
           v3 == rem[3] * 128 - qhat * d[3] + (v2 \div Base)
           v4 == rem[4] * 128 - qhat * d[4] + (v3 \div Base)
           \* u = t - d
           w1 == (v1 % Base) - d[1]
           w2 == (v2 % Base) - d[2] + (w1 \div Base)
           w3 == (v3 % Base) - d[3] + (w2 \div Base)
           w4 == v4 - d[4] + (w3 \div Base)
       IN  IF w4 >= 0
           THEN <<qhat + 1>> \o DivDigits(<<w1 % Base, w2 % Base, w3 % Base, w4>>, d, dT1, n - 1)
           ELSE <<qhat>> \o DivDigits(<<v1 % Base, v2 % Base, v3 % Base, v4>>, d, dT1, n - 1)

\* the quotient floor(a.m * 2^56 / b.m) from its 8 digits of 7 bits (the first
\* may reach 255), rounded
DivRound(neg, ds, e) ==
  RoundTo(neg,
          Carry5(ds[8] + 128 * ds[7], ds[6] + 128 * ds[5], ds[4] + 128 * ds[3],
                 ds[2] + 128 * ds[1], 0),
          e, ds[9] = 1, Precision)

\* a / b, b nonzero
FDiv(a, b) ==
  IF FIsZero(a) THEN FZero
  ELSE DivRound(a.neg # b.neg,
                DivDigits(a.m, b.m, (b.m[3] \div 4) + b.m[4] * 4096 + 1, 8),
                a.e - b.e - 56)

\* an integer below 2^31 in magnitude, as a double
FromNat(neg, w) ==
  RoundTo(neg, <<w % Base, (w \div Base) % Base, w \div (Base * Base), 0, 0>>, 0, FALSE,
          Precision)

FromInt(v) == FromNat(v < 0, IF v < 0 THEN -v ELSE v)

\* the decimal literal n / d (d a power of ten): the double nearest to it
Dec(n, d) == FDiv(FromInt(n), FromInt(d))

\* the integer held in the three low limbs of y
Int3(y) == y[1] + y[2] * Base + y[3] * Base * Base

\* floor of the value with magnitude t + fraction (exact: no fraction)
FloorOf(neg, t, exact) == IF ~neg THEN t ELSE IF exact THEN -t ELSE -t - 1

\* Math.floor(a) for |a| < 2^31, as an integer
FFloor(a) ==
  IF FIsZero(a) THEN 0
  ELSE IF a.e >= 0 THEN FloorOf(a.neg, Int3(Shl5(Wide(a), a.e)), TRUE)
  ELSE IF -a.e > Precision THEN (IF a.neg THEN -1 ELSE 0)
  ELSE FloorOf(a.neg, Int3(Shr5(Wide(a), -a.e)), LowZero5(Wide(a), -a.e))

\* Math.fround(a): a rounded to binary32 (within its normal range), as stored
\* into and read back from a Float32Array
Fround(a) ==
  IF FIsZero(a) THEN a
  ELSE RoundTo(a.neg, Wide(a), a.e, FALSE, SinglePrecision)

\* Math.min(a, b)
FMin(a, b) == IF FLess(b, a) THEN b ELSE a

\* Math.max(a, b)
FMax(a, b) == IF FLess(a, b) THEN b ELSE a

\* whether the square sq (as Mul4 gives it) of a 4-limb natural is at most, or
\* exactly, M * 2^56, M a 4-limb natural
SquareFits(sq, M) ==
  \/ Less4(<<sq.high[2], sq.high[3], sq.high[4], sq.high[5]>>, M)
  \/ <<sq.high[2], sq.high[3], sq.high[4], sq.high[5]>> = M /\ sq.high[1] = 0 /\ ~sq.low

SquareIs(sq, M) ==
  <<sq.high[2], sq.high[3], sq.high[4], sq.high[5]>> = M /\ sq.high[1] = 0 /\ ~sq.low

\* a * 2^k
Scaled(a, k) == IF FIsZero(a) THEN a ELSE [a EXCEPT !.e = @ + k]

\* q + d for a 4-limb q and a small d
AddSmall(q, d) == Low4(Carry5(q[1] + d, q[2], q[3], q[4], 0))

\* q + d if its square is still at most M * 2^56, else q
SqrtTry(M, q, c) == IF SquareFits(Mul4(c, c), M) THEN c ELSE q

\* floor(sqrt(M * 2^56)), given that it lies in q .. q + 2 * d - 1 (d a power
\* of two), by bisection (n ranges over a set of one element)
RECURSIVE Refine(_, _, _)
Refine(M, q, d) ==
  IF d = 0 THEN q
  ELSE CHOOSE r \in {Refine(M, n, d \div 2) : n \in {SqrtTry(M, q, AddSmall(q, d))}} : TRUE

\* the root q of M * 2^56 (inexact when q * q is less), times 2^e, rounded
SqrtRound(M, q, e) ==
  RoundTo(FALSE, <<q[1], q[2], q[3], q[4], 0>>, e, ~SquareIs(Mul4(q, q), M), Precision)

\* Newton's iteration for the integer root of T, 2^28 <= T < 2^30, from 2^15:
\* four steps leave it within 1 of the root
RootStep(T, x) == (x + (T \div x)) \div 2

RootEstimate(T) == RootStep(T, RootStep(T, RootStep(T, RootStep(T, 32768))))

\* Newton's iteration in binary64 for the root of a: (y + a / y) / 2
NewtonStep(a, y) == Scaled(FAdd(y, FDiv(a, y)), -1)

\* y / 2^e as an integer, less 8: y is the root of M * 2^56 * 2^(2e) to within
\* 8 units of 2^e, so this is at most the integer root and within 15 of it
LowerGuess(y, e) == Low4(Sub5(Shl5(Wide(y), y.e - e), <<8, 0, 0, 0, 0>>, 0))

\* the root of M * 2^56 * 2^(2e), 2^52 <= M < 2^54, from the estimate y0:
\* two Newton steps bring 14 correct bits to 53, the integer root (of 55 bits)
\* is then found exactly and rounded
SqrtNear(M, y0, a, e) ==
  CHOOSE r \in
    {SqrtRound(M, Refine(M, LowerGuess(y, e), 8), e) :
       y \in {NewtonStep(a, NewtonStep(a, y0))}} : TRUE

\* M / 2^24
Top30(M) == (M[2] \div 1024) + M[3] * 16 + M[4] * 262144

SqrtOf(M, a, e) ==
  SqrtNear(M, Scaled(FromInt(RootEstimate(Top30(M))), 40 + e), a, e)

\* Math.sqrt(a), a >= 0: a is M * 2^56 * 2^(2e) with M the significand or twice
\* the significand, whichever leaves an even exponent
FSqrt(a) ==
  IF FIsZero(a) THEN a
  ELSE IF a.e % 2 = 0 THEN SqrtOf(a.m, a, (a.e - 56) \div 2)
  ELSE SqrtOf(Low4(Shl5(Wide(a), 1)), a, (a.e - 57) \div 2)

\* Math.hypot(a, b): the root of the sum of the squares.  (The engine may
\* compute it with other intermediate roundings; the pixel offsets of the model
\* give distances that are either equal, from offsets equal in magnitude, or far
\* apart.)
Hypot(a, b) == FSqrt(FAdd(FMul(a, a), FMul(b, b)))

(***************************************************************************)
(* The environment: the canvas's CSS box, as getBoundingClientRect()        *)
(* reports it, and the inputs the handlers are given.                       *)
(***************************************************************************)
RectLeft == 10
RectTop == 20
RectWidth == 600
RectHeight == 400

\* the points the host supplies: {id, x, y}
Pt(id, x, y) == [id |-> id, x |-> x, y |-> y]

PointPool ==
  { Pt(1, FZero, FZero),
    Pt(1, Dec(5, 10), Dec(5, 10)),
    Pt(2, Dec(1, 10), Dec(-3, 10)) }

Ids == {p.id : p \in PointPool}

\* longest batch handed to setPoints / appendPoints, most points stored
MaxBatch == 2
MaxPoints == 3

RECURSIVE SeqsUpTo(_, _)
SeqsUpTo(S, n) ==
  IF n = 0 THEN {<<>>}
  ELSE LET shorter == SeqsUpTo(S, n - 1)
       IN  shorter \cup {Append(q, x) : q \in {r \in shorter : Len(r) = n - 1}, x \in S}

Batches == SeqsUpTo(PointPool, MaxBatch)

\* pointer positions (clientX, clientY) and buttons (0 primary, 2 secondary)
Positions == {<<100, 100>>, <<460, 320>>}
Buttons == {0, 2}

\* Math.sign(e.deltaY)
Signs == {-1, 0, 1}

\* the displayed size of the canvas (clientWidth, clientHeight) and
\* window.devicePixelRatio as resize() may read them; a missing ratio reads as 0
ClientSizes == {<<600, 400>>, <<301, 201>>}
Ratios == {FZero, Dec(1, 2), FromInt(1), Dec(3, 2), FromInt(2), FromInt(3)}

\* where the primary button is clicked (clientX, clientY)
ClickPositions == Positions \cup {<<385, 170>>}

\* the batches of a run that mixes store operations with everything else that
\* draws: empty, or one point
DrawBatches == SeqsUpTo({Pt(2, Dec(1, 10), Dec(-3, 10))}, 1)

\* most pans and zooms in a run that mixes them with everything else that draws
MaxDrawViewChanges == 1

\* most picks handed to the host in one run
MaxPicks == 2

(***************************************************************************)
(* The state of a Scatter                                                   *)
(***************************************************************************)
VARIABLES
  points,         \* this.points: the stored sequence (index i is points[i + 1])
  callerArray,    \* whether this.points is the array object the caller passed to setPoints
  data,           \* this.data: the Float32Array, 2 floats per point
  needsUpload,    \* this.needsUpload
  idToIndex,      \* this.idToIndex: a Map, here a function on its keys
  grid,           \* this.grid: a Map from cell key to the list of indices
  scale, tx, ty,  \* the view transform
  dragging, lastX, lastY,
  selectedIndex,
  rafQueue,       \* callbacks passed to requestAnimationFrame, not yet run
  now,            \* performance.now(), in ms
  last,           \* the handler that ran last and what it did (draw calls, ...)
  lastButton,     \* the most recent press or release event of the pointer
  pressed,        \* buttons pressed on the canvas since the last release
  viewChanges,    \* wheel and drag-move events handled so far
  centred,        \* the target of the most recent centerOnSelected call that had one
  canvasWidth,    \* this.canvas.width: the backing pixel buffer
  canvasHeight,   \* this.canvas.height
  loads,          \* main.ts: the invocations of loadCoords
  jobs,           \* main.ts: playQueue, the chain of promises, one per pick
  idToPath,       \* main.ts: the id -> path cache
  currentPath,    \* main.ts: the path shown as selected
  calls           \* the play_file commands issued to the backend, in order

vars == <<points, callerArray, data, needsUpload, idToIndex, grid, scale, tx, ty,
          dragging, lastX, lastY, selectedIndex, rafQueue, now, last, lastButton,
          pressed, viewChanges, centred, canvasWidth, canvasHeight, loads, jobs,
          idToPath, currentPath, calls>>

storeVars == <<points, callerArray, data, needsUpload, idToIndex, grid>>
viewVars == <<scale, tx, ty>>
dragVars == <<dragging, lastX, lastY>>
pointerVars == <<lastButton, pressed, viewChanges>>
canvasVars == <<canvasWidth, canvasHeight>>
hostVars == <<loads, jobs, idToPath, currentPath, calls>>

EmptyMap == [k \in {} |-> 0]

\* a Map.set that would leave an existing entry alone
MapSetKeepFirst(map, k, v) ==
  [j \in DOMAIN map \cup {k} |-> IF j \in DOMAIN map THEN map[j] ELSE v]

\* map.set(k, v)
MapSet(map, k, v) == [j \in DOMAIN map \cup {k} |-> IF j = k THEN v ELSE map[j]]

FOne == FromInt(1)
FTwo == FromInt(2)

gridSize == Dec(5, 100)

\* Math.floor(v / this.gridSize)
CellOf(v) == FFloor(FDiv(v, gridSize))

\* the key `${gx},${gy}`: distinct integer pairs print as distinct strings
KeyOf(p) == <<CellOf(p.x), CellOf(p.y)>>

\* KeyOf, for every point the host supplies (computed once)
PoolKey == [p \in PointPool |-> KeyOf(p)]

\* the pair of floats a point is stored as: the Float32Array rounds what is
\* written to it (computed once for every point the host supplies)
PoolFloats == [p \in PointPool |-> <<Fround(p.x), Fround(p.y)>>]

\* the grid with index i pushed to the list of cell key
GridPush(g, key, i) ==
  IF key \in DOMAIN g THEN [g EXCEPT ![key] = Append(@, i)] ELSE MapSet(g, key, <<i>>)

\* the loop of rebuildGrid and of addToGrid, from index i on
RECURSIVE GridInsertFrom(_, _, _)
GridInsertFrom(g, pts, i) ==
  IF i >= Len(pts) THEN g
  ELSE GridInsertFrom(GridPush(g, PoolKey[pts[i + 1]], i), pts, i + 1)

rebuildGrid(pts) == GridInsertFrom(EmptyMap, pts, 0)

addToGrid(g, pts, startIndex) == GridInsertFrom(g, pts, startIndex)

\* a packing that would store the doubles unrounded
PackIntoUnrounded(old, pts, base, n) ==
  [j \in 1..(2 * n) |->
     IF (j - 1) \div 2 >= base /\ ((j - 1) \div 2) - base < Len(pts)
     THEN IF j % 2 = 1 THEN pts[((j - 1) \div 2) - base + 1].x
          ELSE pts[((j - 1) \div 2) - base + 1].y
     ELSE IF j <= Len(old) THEN old[j] ELSE FZero]

\* a packing that would leave out newData.set(this.data)
PackIntoNoCopy(old, pts, base, n) ==
  [j \in 1..(2 * n) |->
     IF (j - 1) \div 2 >= base /\ ((j - 1) \div 2) - base < Len(pts)
     THEN PoolFloats[pts[((j - 1) \div 2) - base + 1]][2 - (j % 2)]
     ELSE FZero]

\* the Float32Array after the loop wrote pts[i] at index (base + i) * 2, over old
\* (new Float32Array(n * 2), zero filled, then newData.set(old))
PackInto(old, pts, base, n) ==
  [j \in 1..(2 * n) |->
     IF (j - 1) \div 2 >= base /\ ((j - 1) \div 2) - base < Len(pts)
     THEN PoolFloats[pts[((j - 1) \div 2) - base + 1]][2 - (j % 2)]
     ELSE IF j <= Len(old) THEN old[j] ELSE FZero]

\* an indexing that would forget the offset of the batch
RECURSIVE IndexFromNoBase(_, _, _, _)
IndexFromNoBase(map, pts, base, i) ==
  IF i >= Len(pts) THEN map
  ELSE IndexFromNoBase(MapSet(map, pts[i + 1].id, i), pts, base, i + 1)

\* this.idToIndex.set(pts[i].id, base + i) for i = from .. pts.length - 1
RECURSIVE IndexFrom(_, _, _, _)
IndexFrom(map, pts, base, i) ==
  IF i >= Len(pts) THEN map
  ELSE IndexFrom(MapSet(map, pts[i + 1].id, base + i), pts, base, i + 1)

\* what one call of draw() does besides clearing and drawing the points:
\* a draw that would upload whether or not the flag is set
DrawUploadsAlways(flag) == 1

\* the upload, if the flag is set, and the highlight overlay
DrawUploads(flag) == IF flag THEN 1 ELSE 0

DrawHighlights(sel, n) == IF sel >= 0 /\ sel < n THEN 1 ELSE 0

Did(op, arg, draws, uploads, highlights) ==
  [op |-> op, arg |-> arg, draws |-> draws, uploads |-> uploads,
   highlights |-> highlights, threw |-> FALSE]

\* Math.max(1, Math.min(2, window.devicePixelRatio || 1)); a missing ratio
\* reads as 0
Dpr(ratio) == FMax(FOne, FMin(FTwo, IF FIsZero(ratio) THEN FOne ELSE ratio))

\* Math.floor(this.canvas.clientWidth * dpr)
DisplaySize(client, dpr) == FFloor(FMul(FromInt(client), dpr))

\* main.ts, loadCoords: an invocation that has just sent its first request.
\* off and pts are its locals; phase is "awaiting" (at the await of a request),
\* "done" (returned) or "failed" (a request was rejected); requested, pages and
\* setCalls record the offsets it asked for, the pages it received and the
\* arguments it gave to setPoints.
NewLoad ==
  [off |-> 0, pts |-> <<>>, phase |-> "awaiting", requested |-> <<0>>, pages |-> <<>>,
   setCalls |-> <<>>]

\* main.ts: let currentPath: string | null = null
NoPath == "null"

(***************************************************************************)
(* The state after main.ts has run to its end: the viewer is constructed    *)
(* (its resize() sized the canvas to the displayed box at ratio 1, and its  *)
(* requestAnimationFrame(() => this.draw()) is pending), the first          *)
(* loadCoords() awaits its first page, and onPick is the host's handler.    *)
(***************************************************************************)
Init ==
  /\ points = <<>>
  /\ callerArray = FALSE
  /\ data = <<>>
  /\ needsUpload = FALSE
  /\ idToIndex = EmptyMap
  /\ grid = EmptyMap
  /\ scale = FOne
  /\ tx = FZero
  /\ ty = FZero
  /\ dragging = FALSE
  /\ lastX = 0
  /\ lastY = 0
  /\ selectedIndex = -1
  /\ rafQueue = <<[kind |-> "draw"]>>
  /\ now = 0
  /\ last = Did("constructor", <<>>, 0, 0, 0)
  /\ lastButton = [kind |-> "none", button |-> 0, onCanvas |-> FALSE]
  /\ pressed = {}
  /\ viewChanges = 0
  /\ centred = <<>>
  /\ canvasWidth = DisplaySize(RectWidth, Dpr(FOne))
  /\ canvasHeight = DisplaySize(RectHeight, Dpr(FOne))
  /\ loads = <<NewLoad>>
  /\ jobs = <<>>
  /\ idToPath = EmptyMap
  /\ currentPath = NoPath
  /\ calls = <<>>

(***************************************************************************)
(* Point store                                                              *)
(***************************************************************************)
\* setPoints(pts): what it does to the viewer
StorePoints(pts) ==
  /\ points' = pts
  /\ callerArray' = TRUE
  /\ data' = PackInto(<<>>, pts, 0, Len(pts))
  /\ idToIndex' = IndexFrom(EmptyMap, pts, 0, 0)
  /\ grid' = rebuildGrid(pts)
  /\ needsUpload' = FALSE          \* set, then cleared by the draw of invalidate()
  /\ last' = Did("setPoints", Len(pts), 1, DrawUploads(TRUE),
                 DrawHighlights(selectedIndex, Len(pts)))
  /\ UNCHANGED <<viewVars, dragVars, selectedIndex, rafQueue, now, pointerVars,
                 centred, canvasVars>>

\* setPoints(pts), called by a host that keeps its own state
SetPoints(pts) == StorePoints(pts) /\ UNCHANGED hostVars

\* appendPoints(pts) for a nonempty pts: pushed is this.points after the push,
\* pts the argument as the loop sees it
AppendPushed(pushed, pts, given) ==
  /\ points' = pushed
  /\ data' = PackInto(data, pts, Len(pushed) - Len(pts), Len(pushed))
  /\ idToIndex' = IndexFrom(idToIndex, pts, Len(pushed) - Len(pts), 0)
  /\ grid' = addToGrid(grid, pushed, Len(pushed) - Len(pts))
  /\ needsUpload' = FALSE
  /\ last' = Did("appendPoints", given, 1, DrawUploads(TRUE),
                 DrawHighlights(selectedIndex, Len(pushed)))
  /\ UNCHANGED <<callerArray, viewVars, dragVars, selectedIndex, rafQueue, now,
                 pointerVars,
                 centred, canvasVars, hostVars>>

\* appendPoints(pts), where pts is either a batch of the caller's own or, with
\* alias, the very array held in this.points (the caller got it through setPoints):
\* this.points.push(...pts) then grows pts itself
AppendPoints(batch, alias) ==
  IF Len(IF alias THEN points ELSE batch) = 0
  THEN /\ last' = Did("appendPoints", 0, 0, 0, 0)
       /\ UNCHANGED <<storeVars, viewVars, dragVars, selectedIndex, rafQueue, now,
                      pointerVars,
                      centred, canvasVars, hostVars>>
  ELSE IF alias THEN AppendPushed(points \o points, points \o points, Len(points))
  ELSE AppendPushed(points \o batch, batch, Len(batch))

\* setSelectedId(id); NoId stands for null (it is no id of the pool)
NoId == -1

SelectIndex(idx) ==
  /\ selectedIndex' = idx
  /\ needsUpload' = FALSE
  /\ UNCHANGED <<points, callerArray, data, idToIndex, grid, viewVars, dragVars,
                 rafQueue, now, pointerVars,
                 centred, canvasVars, hostVars>>

SetSelectedId(id) ==
  /\ SelectIndex(IF id # NoId /\ id \in DOMAIN idToIndex THEN idToIndex[id] ELSE -1)
  /\ last' = Did("setSelectedId", id, 1, DrawUploads(needsUpload),
                 DrawHighlights(selectedIndex', Len(points)))

(***************************************************************************)
(* Camera animator                                                          *)
(***************************************************************************)
dur == 150

\* const step = () => { ... }: one sample of the transition cb, run at time t:
\* the translation it writes and whether it schedules itself again
StepFraction(cb, t) == FMin(FOne, FDiv(FromInt(t - cb.t0), FromInt(dur)))

Ease(f) == FMul(f, FSub(FTwo, f))

Lerp(from, to, ease) == FAdd(from, FMul(FSub(to, from), ease))

Sample(cb, f, ease) ==
  [tx    |-> Lerp(cb.startTx, cb.targetTx, ease),
   ty    |-> Lerp(cb.startTy, cb.targetTy, ease),
   again |-> FLess(f, FOne)]

SampleAt(cb, f) == Sample(cb, f, Ease(f))

step(cb, t) == SampleAt(cb, StepFraction(cb, t))

\* most step callbacks pending at once
MaxQueue == 2

\* centerOnSelected(smooth) with p = this.points[this.selectedIndex] defined
CenterOn(smooth, targetTx, targetTy) ==
  IF ~smooth
  THEN /\ tx' = targetTx
       /\ ty' = targetTy
       /\ needsUpload' = FALSE
       /\ last' = Did("centerOnSelected", smooth, 1, DrawUploads(needsUpload),
                      DrawHighlights(selectedIndex, Len(points)))
       /\ centred' = <<targetTx, targetTy>>
       /\ UNCHANGED <<points, callerArray, data, idToIndex, grid, scale, dragVars,
                      selectedIndex, rafQueue, now, pointerVars, canvasVars, hostVars>>
  ELSE /\ rafQueue' = Append(rafQueue,
                        [kind |-> "step", startTx |-> tx, startTy |-> ty,
                         targetTx |-> targetTx, targetTy |-> targetTy, t0 |-> now])
       /\ last' = Did("centerOnSelected", smooth, 0, 0, 0)
       /\ centred' = <<targetTx, targetTy>>
       /\ UNCHANGED <<storeVars, viewVars, dragVars, selectedIndex, now, pointerVars,
                      canvasVars, hostVars>>

\* centerOnSelected(smooth)
CenterOnSelected(smooth) ==
  IF selectedIndex < 0
  THEN /\ last' = Did("centerOnSelected", smooth, 0, 0, 0)
       /\ UNCHANGED <<storeVars, viewVars, dragVars, selectedIndex, rafQueue, now,
                      pointerVars,
                      centred, canvasVars, hostVars>>
  ELSE IF selectedIndex >= Len(points)
  THEN \* p is undefined: reading p.x throws a TypeError
       /\ last' = [Did("centerOnSelected", smooth, 0, 0, 0) EXCEPT !.threw = TRUE]
       /\ UNCHANGED <<storeVars, viewVars, dragVars, selectedIndex, rafQueue, now,
                      pointerVars,
                      centred, canvasVars, hostVars>>
  ELSE CenterOn(smooth,
                FMul(FNeg(points[selectedIndex + 1].x), scale),
                FMul(FNeg(points[selectedIndex + 1].y), scale))

\* One animation frame: the browser runs, in order, the callbacks that were
\* queued when the frame began; those a callback queues run in the next frame.
\* acc: the translation, the upload flag, the new queue, and what was drawn.
AfterDraw(acc) ==
  [acc EXCEPT !.needsUpload = FALSE,
              !.draws = @ + 1,
              !.uploads = @ + DrawUploads(acc.needsUpload),
              !.highlights = @ + DrawHighlights(selectedIndex, Len(points))]

\* after the step callback cb ran and wrote the sample s
AfterStep(acc, cb, s) ==
  [AfterDraw(acc) EXCEPT !.tx = s.tx,
                         !.ty = s.ty,
                         !.queue = IF s.again THEN Append(@, cb) ELSE @,
                         !.samples = Append(@, [cb |-> cb, again |-> s.again])]

RECURSIVE RunFrame(_, _)
RunFrame(queue, acc) ==
  IF queue = <<>> THEN acc
  ELSE IF Head(queue).kind = "draw" THEN RunFrame(Tail(queue), AfterDraw(acc))
  ELSE RunFrame(Tail(queue), AfterStep(acc, Head(queue), step(Head(queue), now)))

FrameDone(r) ==
  /\ tx' = r.tx
  /\ ty' = r.ty
  /\ needsUpload' = r.needsUpload
  /\ rafQueue' = r.queue
  /\ last' = Did("frame", r.samples, r.draws, r.uploads, r.highlights)
  /\ UNCHANGED <<points, callerArray, data, idToIndex, grid, scale, dragVars,
                 selectedIndex, now, pointerVars,
                 centred, canvasVars, hostVars>>

Frame ==
  /\ rafQueue # <<>>
  /\ FrameDone(RunFrame(rafQueue,
                 [tx |-> tx, ty |-> ty, needsUpload |-> needsUpload, queue |-> <<>>,
                  draws |-> 0, uploads |-> 0, highlights |-> 0, samples |-> <<>>]))

\* time passes
TickSteps == {75}
MaxNow == 150

Tick(dt) ==
  /\ now + dt <= MaxNow
  /\ now' = now + dt
  /\ UNCHANGED <<storeVars, viewVars, dragVars, selectedIndex, rafQueue, last,
                 pointerVars,
                 centred, canvasVars, hostVars>>

(***************************************************************************)
(* Interaction controller: the listeners of attachEvents                    *)
(***************************************************************************)
\* mousedown; the listener is on the canvas, so a press elsewhere runs no code
MouseDown(button, clientX, clientY, onCanvas) ==
  /\ lastButton' = [kind |-> "down", button |-> button, onCanvas |-> onCanvas]
  /\ pressed' = IF onCanvas THEN pressed \cup {button} ELSE pressed
  /\ IF onCanvas /\ button = 2
     THEN /\ dragging' = TRUE
          /\ lastX' = clientX
          /\ lastY' = clientY
     ELSE UNCHANGED dragVars
  /\ last' = IF onCanvas THEN Did("mousedown", <<button, clientX, clientY>>, 0, 0, 0)
             ELSE last
  /\ UNCHANGED <<storeVars, viewVars, selectedIndex, rafQueue, now, viewChanges,
                 centred, canvasVars, hostVars>>

\* a mouseup that would end the drag only for the secondary button
MouseUpSecondaryOnly(button, onCanvas) ==
  /\ lastButton' = [kind |-> "up", button |-> button, onCanvas |-> onCanvas]
  /\ pressed' = {}
  /\ dragging' = (dragging /\ button # 2)
  /\ last' = Did("mouseup", button, 0, 0, 0)
  /\ UNCHANGED <<storeVars, viewVars, lastX, lastY, selectedIndex, rafQueue, now,
                 viewChanges,
                 centred, canvasVars, hostVars>>

\* mouseup, on the window
MouseUp(button, onCanvas) ==
  /\ lastButton' = [kind |-> "up", button |-> button, onCanvas |-> onCanvas]
  /\ pressed' = {}
  /\ dragging' = FALSE
  /\ last' = Did("mouseup", button, 0, 0, 0)
  /\ UNCHANGED <<storeVars, viewVars, lastX, lastY, selectedIndex, rafQueue, now,
                 viewChanges,
                 centred, canvasVars, hostVars>>

\* most wheel and drag-move events handled in one run
MaxViewChanges == 2

\* the drag branch of mousemove: the view moves by (nx, ny)
Drag(clientX, clientY, nx, ny) ==
  /\ viewChanges < MaxViewChanges
  /\ viewChanges' = viewChanges + 1
  /\ lastX' = clientX
  /\ lastY' = clientY
  /\ tx' = FAdd(tx, nx)
  /\ ty' = FAdd(ty, ny)
  /\ needsUpload' = FALSE
  /\ last' = Did("mousemove", <<clientX, clientY>>, 1, DrawUploads(needsUpload),
                 DrawHighlights(selectedIndex, Len(points)))
  /\ UNCHANGED <<points, callerArray, data, idToIndex, grid, scale, dragging,
                 selectedIndex, rafQueue, now, lastButton, pressed,
                 centred, canvasVars, hostVars>>

\* a mousemove that would not test this.dragging
MouseMoveUnguarded(clientX, clientY) ==
  Drag(clientX, clientY,
       FDiv(FromInt(2 * (clientX - lastX)), FromInt(RectWidth)),
       FDiv(FromInt(-2 * (clientY - lastY)), FromInt(RectHeight)))

\* mousemove, on the window
MouseMove(clientX, clientY) ==
  IF ~dragging
  THEN /\ last' = Did("mousemove", <<clientX, clientY>>, 0, 0, 0)
       /\ UNCHANGED <<storeVars, viewVars, dragVars, selectedIndex, rafQueue, now,
                      pointerVars,
                      centred, canvasVars, hostVars>>
  ELSE Drag(clientX, clientY,
            FDiv(FromInt(2 * (clientX - lastX)), FromInt(RectWidth)),
            FDiv(FromInt(-2 * (clientY - lastY)), FromInt(RectHeight)))

\* Math.pow(1.1, -Math.sign(deltaY)), for the sign of deltaY: pow(x, 1) is x,
\* pow(x, -1) is 1 / x and pow(x, 0) is 1
ZoomBase == Dec(11, 10)

ZoomFactor(sign) ==
  IF sign > 0 THEN FDiv(FOne, ZoomBase)
  ELSE IF sign < 0 THEN ZoomBase
  ELSE FOne

\* screen -> NDC of the wheel listener
WheelSx(clientX) ==
  FSub(FMul(FDiv(FromInt(clientX - RectLeft), FromInt(RectWidth)), FTwo), FOne)

WheelSy(clientY) ==
  FNeg(FSub(FMul(FDiv(FromInt(clientY - RectTop), FromInt(RectHeight)), FTwo), FOne))

\* (s - t) / sc: the world coordinate shown at NDC s under translation t, scale sc
WorldAt(s, t, sc) == FDiv(FSub(s, t), sc)

\* an anchoring that would forget the scale
AnchorNoScale(s, w, sc) == FSub(s, w)

\* s - w * sc: the translation that shows world coordinate w at NDC s
Anchor(s, w, sc) == FSub(s, FMul(w, sc))

\* a wheel listener that would also end a drag
ZoomEndsDrag(sign, sx, sy, wx, wy, sc) ==
  /\ viewChanges < MaxViewChanges
  /\ viewChanges' = viewChanges + 1
  /\ scale' = sc
  /\ tx' = Anchor(sx, wx, sc)
  /\ ty' = Anchor(sy, wy, sc)
  /\ needsUpload' = FALSE
  /\ dragging' = FALSE
  /\ last' = Did("wheel",
                 [sign |-> sign, sx |-> sx, sy |-> sy, wx |-> wx, wy |-> wy,
                  scale |-> scale],
                 1, DrawUploads(needsUpload), DrawHighlights(selectedIndex, Len(points)))
  /\ UNCHANGED <<points, callerArray, data, idToIndex, grid, lastX, lastY, selectedIndex,
                 rafQueue, now, lastButton, pressed,
                 centred, canvasVars, hostVars>>

\* the wheel listener once its locals are computed: the cursor (sx, sy), the
\* world point (wx, wy) under it before the zoom, and the new scale sc
Zoom(sign, sx, sy, wx, wy, sc) ==
  /\ viewChanges < MaxViewChanges
  /\ viewChanges' = viewChanges + 1
  /\ scale' = sc
  /\ tx' = Anchor(sx, wx, sc)
  /\ ty' = Anchor(sy, wy, sc)
  /\ needsUpload' = FALSE
  /\ last' = Did("wheel",
                 [sign |-> sign, sx |-> sx, sy |-> sy, wx |-> wx, wy |-> wy,
                  scale |-> scale],
                 1, DrawUploads(needsUpload), DrawHighlights(selectedIndex, Len(points)))
  /\ UNCHANGED <<points, callerArray, data, idToIndex, grid, dragVars, selectedIndex,
                 rafQueue, now, lastButton, pressed,
                 centred, canvasVars, hostVars>>

ZoomAt(sign, sx, sy) ==
  Zoom(sign, sx, sy, WorldAt(sx, tx, scale), WorldAt(sy, ty, scale),
       FMul(scale, ZoomFactor(sign)))

\* wheel, on the canvas; sign is Math.sign(e.deltaY)
Wheel(sign, clientX, clientY) == ZoomAt(sign, WheelSx(clientX), WheelSy(clientY))

(***************************************************************************)
(* Picking                                                                  *)
(***************************************************************************)
maxR == 48

\* the offsets <<dx, dy>> the two inner loops of pick go through at radius r:
\* dy from -r to r and, within, dx from -r to r
Square(r) ==
  [j \in 1..((2 * r + 1) * (2 * r + 1)) |->
     <<((j - 1) % (2 * r + 1)) - r, ((j - 1) \div (2 * r + 1)) - r>>]

Abs(v) == IF v < 0 THEN -v ELSE v

\* if (r > 0 && Math.abs(dx) !== r && Math.abs(dy) !== r) continue
Skipped(r, d) == r > 0 /\ Abs(d[1]) # r /\ Abs(d[2]) # r

\* the offsets whose cell is looked up at radius r, in the order of the loops
RingOf(r) == LET Kept(d) == ~Skipped(r, d) IN SelectSeq(Square(r), Kept)

\* RingOf, for every radius (computed once)
Rings == [r \in 0..maxR |-> RingOf(r)]

\* whether the loops at radius r look up the cell at offset d: d is within
\* their bounds and not skipped
InRing(r, d) == Abs(d[1]) <= r /\ Abs(d[2]) <= r /\ ~Skipped(r, d)

\* when, in the order of the loops at radius r, the cell at offset d is looked up
PosIn(r, d) == CHOOSE c \in DOMAIN Rings[r] : Rings[r][c] = d

\* the positions in ring r (around cell <<gx, gy>>) whose cell is in the grid:
\* this.grid.get(...) is defined there
Occupied(r, gx, gy) ==
  {PosIn(r, <<k[1] - gx, k[2] - gy>>) :
     k \in {k \in DOMAIN grid : InRing(r, <<k[1] - gx, k[2] - gy>>)}}

\* the indices the loops come across in ring r, in order: cell after cell, each
\* cell's list from its start; cs are the positions still to visit
RECURSIVE Gather(_, _, _, _)
Gather(cs, r, gx, gy) ==
  IF cs = {} THEN <<>>
  ELSE LET c == CHOOSE c \in cs : \A o \in cs : c <= o
       IN  grid[<<gx + Rings[r][c][1], gy + Rings[r][c][2]>>]
             \o Gather(cs \ {c}, r, gx, gy)

\* rect.width, rect.height and 0.5, as numbers
FWidth == FromInt(RectWidth)
FHeight == FromInt(RectHeight)
FHalf == Dec(5, 10)

\* screen -> NDC, from CSS pixels relative to the canvas
PickSx(px) == FSub(FMul(FDiv(FromInt(px), FWidth), FTwo), FOne)

PickSy(py) == FNeg(FSub(FMul(FDiv(FromInt(py), FHeight), FTwo), FOne))

\* NDC -> CSS pixels: ((sx2 + 1) * 0.5) * rect.width, and the same for y
PixelX(sx2) == FMul(FMul(FAdd(sx2, FOne), FHalf), FWidth)

PixelY(sy2) == FMul(FMul(FAdd(FNeg(sy2), FOne), FHalf), FHeight)

\* the distance d in pixels from the point p, as drawn, to (px, py)
DistPx(p, px, py) ==
  Hypot(FSub(PixelX(FAdd(FMul(p.x, scale), tx)), FromInt(px)),
        FSub(PixelY(FAdd(FMul(p.y, scale), ty)), FromInt(py)))

\* { id: this.points[i].id, x: p.x, y: p.y, distPx: d }
Candidate(p, d) == [id |-> p.id, x |-> p.x, y |-> p.y, distPx |-> d]

\* a PickResult is <<>> (null) or <<candidate>>
NoPick == <<>>

\* a comparison that would let a later candidate at the same distance win
BetterOrEqual(best, c) ==
  IF best = NoPick THEN <<c>>
  ELSE IF ~FLess(best[1].distPx, c.distPx) THEN <<c>>
  ELSE best

\* if (!best || d < best.distPx) best = {...}: best after the candidate c
Better(best, c) ==
  IF best = NoPick THEN <<c>>
  ELSE IF FLess(c.distPx, best[1].distPx) THEN <<c>>
  ELSE best

\* for (const i of arr) { ... }, over the indices is[j], is[j + 1], ...
\* (c ranges over a set of one element: the candidate, computed once)
RECURSIVE BestOf(_, _, _, _, _)
BestOf(is, j, best, px, py) ==
  IF j > Len(is) THEN best
  ELSE CHOOSE r \in
         {BestOf(is, j + 1, Better(best, c), px, py) :
            c \in {Candidate(points[is[j] + 1], DistPx(points[is[j] + 1], px, py))}} : TRUE

\* what a search leaves: best, and how many times this.grid.get was called
Found(best, gets) == [best |-> best, gets |-> gets]

\* a search that would give up one ring early (r < maxR)
RECURSIVE SearchBelowCap(_, _, _, _, _, _)
SearchBelowCap(r, gx, gy, px, py, gets) ==
  IF r >= maxR THEN Found(NoPick, gets)
  ELSE IF Occupied(r, gx, gy) = {}
  THEN SearchBelowCap(r + 1, gx, gy, px, py, gets + Len(Rings[r]))
  ELSE Found(BestOf(Gather(Occupied(r, gx, gy), r, gx, gy), 1, NoPick, px, py),
             gets + Len(Rings[r]))

\* for (let r = ...; r <= maxR; r++) { ...; if (best) break }, from radius r on,
\* after gets calls of this.grid.get: one more for every offset of a ring
RECURSIVE SearchFrom(_, _, _, _, _, _)
SearchFrom(r, gx, gy, px, py, gets) ==
  IF r > maxR THEN Found(NoPick, gets)
  ELSE IF Occupied(r, gx, gy) = {}
  THEN SearchFrom(r + 1, gx, gy, px, py, gets + Len(Rings[r]))
  ELSE Found(BestOf(Gather(Occupied(r, gx, gy), r, gx, gy), 1, NoPick, px, py),
             gets + Len(Rings[r]))

\* the run of pick(px, py)
Searched(px, py) ==
  SearchFrom(0, CellOf(WorldAt(PickSx(px), tx, scale)),
             CellOf(WorldAt(PickSy(py), ty, scale)), px, py, 0)

\* pick(px, py): return best
pick(px, py) == Searched(px, py).best

(***************************************************************************)
(* Canvas size                                                              *)
(***************************************************************************)
\* what a notification was given and whether it assigned the canvas size
Notified(clientWidth, clientHeight, ratio, resized) ==
  [clientWidth |-> clientWidth, clientHeight |-> clientHeight, ratio |-> ratio,
   resized |-> resized]

\* the notification handled just before this one, if the previous handler
\* was a notification
Earlier ==
  IF last.op = "resize"
  THEN <<Notified(last.arg.clientWidth, last.arg.clientHeight, last.arg.ratio,
                  last.arg.resized)>>
  ELSE <<>>

\* what is recorded of a notification: Notified, and the one before it
ResizeArg(clientWidth, clientHeight, ratio, resized) ==
  [clientWidth |-> clientWidth, clientHeight |-> clientHeight, ratio |-> ratio,
   resized |-> resized, earlier |-> Earlier]

\* a size test that would always find the size changed
DiffersAlways(displayW, displayH) == TRUE

\* this.canvas.width !== displayW || this.canvas.height !== displayH
Differs(displayW, displayH) == canvasWidth # displayW \/ canvasHeight # displayH

\* resize(), with displayW and displayH computed
ResizeTo(clientWidth, clientHeight, ratio, displayW, displayH) ==
  IF Differs(displayW, displayH)
  THEN /\ canvasWidth' = displayW
       /\ canvasHeight' = displayH
       /\ needsUpload' = FALSE
       /\ last' = Did("resize", ResizeArg(clientWidth, clientHeight, ratio, TRUE),
                      1, DrawUploads(needsUpload), DrawHighlights(selectedIndex, Len(points)))
       /\ UNCHANGED <<points, callerArray, data, idToIndex, grid, viewVars, dragVars,
                      selectedIndex, rafQueue, now, pointerVars, centred, hostVars>>
  ELSE /\ last' = Did("resize", ResizeArg(clientWidth, clientHeight, ratio, FALSE), 0, 0, 0)
       /\ UNCHANGED <<storeVars, viewVars, dragVars, selectedIndex, rafQueue, now,
                      pointerVars, centred, canvasVars, hostVars>>

\* the ResizeObserver's callback: resize()
Resize(clientWidth, clientHeight, ratio) ==
  ResizeTo(clientWidth, clientHeight, ratio,
           DisplaySize(clientWidth, Dpr(ratio)), DisplaySize(clientHeight, Dpr(ratio)))

(***************************************************************************)
(* Host page: the play queue                                                *)
(***************************************************************************)
\* the host's state that a pick works on
Host == [jobs |-> jobs, idToPath |-> idToPath, currentPath |-> currentPath, calls |-> calls]

SetHost(h) ==
  /\ jobs' = h.jobs
  /\ idToPath' = h.idToPath
  /\ currentPath' = h.currentPath
  /\ calls' = h.calls

\* jobs[k] is the promise the k-th playQueue.then(async () => {...}) returned:
\* the pick's id, the promise it was chained to (after; 0 is the initial
\* Promise.resolve()) and where its function stands: "waiting" (not started),
\* "info", "play", "clip" (at the await of that call), "done" (fulfilled) or
\* "rejected"; failed records that one of its calls was rejected
Job(id, after) ==
  [id |-> id, after |-> after, phase |-> "waiting", path |-> NoPath, failed |-> FALSE]

\* a chaining that would not keep the new promise: every pick is chained to
\* the initial promise
ChainToFirst(js) == 0

\* the promise playQueue holds: the one returned by the latest then()
Chain(js) == Len(js)

Fulfilled(js, k) == k = 0 \/ js[k].phase = "done"

\* await invoke('play_file', { path }) is reached by job k
Playing(h, k, path) ==
  [h EXCEPT !.jobs[k].phase = "play",
            !.jobs[k].path = path,
            !.calls = Append(@, [job |-> k, id |-> h.jobs[k].id, path |-> path])]

\* the function of job k runs up to its first await
Started(h, k) ==
  IF h.jobs[k].id \in DOMAIN h.idToPath
  THEN Playing(h, k, h.idToPath[h.jobs[k].id])
  ELSE [h EXCEPT !.jobs[k].phase = "info"]

\* the reactions of the promises k, k + 1, ... to the promises they are chained
\* to: after a fulfilled one the function starts, a rejection is passed on
RECURSIVE React(_, _)
React(h, k) ==
  IF k > Len(h.jobs) THEN h
  ELSE IF h.jobs[k].phase # "waiting" THEN React(h, k + 1)
  ELSE IF Fulfilled(h.jobs, h.jobs[k].after) THEN React(Started(h, k), k + 1)
  ELSE IF h.jobs[h.jobs[k].after].phase = "rejected"
  THEN React([h EXCEPT !.jobs[k].phase = "rejected"], k + 1)
  ELSE React(h, k + 1)

\* scatter.onPick = (res) => { if (!res) return; playQueue = playQueue.then(...) }
OnPick(h, res) ==
  IF res = NoPick THEN h
  ELSE React([h EXCEPT !.jobs = Append(@, Job(res[1].id, Chain(h.jobs)))], 1)

\* click, on the canvas, once the run of pick() has ended as found: its result
\* goes to onPick, which the host has set; no field of the viewer is written
Clicked(clientX, clientY, found) ==
  /\ last' = Did("click", [clientX |-> clientX, clientY |-> clientY,
                           onPick |-> <<found.best>>, gets |-> found.gets],
                 0, 0, 0)
  /\ SetHost(OnPick(Host, found.best))
  /\ UNCHANGED <<storeVars, viewVars, dragVars, selectedIndex, rafQueue, now,
                 pointerVars, centred, canvasVars, loads>>

\* click, on the canvas
Click(clientX, clientY) ==
  \E found \in {Searched(clientX - RectLeft, clientY - RectTop)} :
     Clicked(clientX, clientY, found)

\* the paths get_file_info may answer with
Paths == {"a.wav", "b.wav"}

\* the host's state changes to h in a step named op about job k; the viewer
\* is not involved
HostStep(op, k, h) ==
  /\ SetHost(h)
  /\ last' = Did(op, k, 0, 0, 0)
  /\ UNCHANGED <<storeVars, viewVars, dragVars, selectedIndex, rafQueue, now,
                 pointerVars, centred, canvasVars, loads>>

\* the function of job k has returned (from its try or from its catch): its
\* promise is fulfilled and the promises chained to it react
Returned(h, k, failed) ==
  React([h EXCEPT !.jobs[k].phase = "done", !.jobs[k].failed = failed], 1)

\* get_file_info answers job k: path = info.path; idToPath.set(res.id, path);
\* await invoke('play_file', { path })
InfoArrives(k, path) ==
  /\ k \in DOMAIN jobs
  /\ jobs[k].phase = "info"
  /\ HostStep("get_file_info", k,
              Playing([Host EXCEPT !.idToPath = MapSet(@, jobs[k].id, path)], k, path))

\* play_file answers job k: currentPath = path; await copy_to_clipboard
PlayDone(k) ==
  /\ k \in DOMAIN jobs
  /\ jobs[k].phase = "play"
  /\ HostStep("play_file", k,
              [Host EXCEPT !.currentPath = jobs[k].path, !.jobs[k].phase = "clip"])

\* get_file_info or play_file is rejected for job k: catch (e), console.error
CallFails(k) ==
  /\ k \in DOMAIN jobs
  /\ jobs[k].phase \in {"info", "play"}
  /\ HostStep("rejected", k, Returned(Host, k, TRUE))

\* copy_to_clipboard answers job k or is rejected: try { await ... } catch {}
ClipSettles(k, ok) ==
  /\ k \in DOMAIN jobs
  /\ jobs[k].phase = "clip"
  /\ HostStep("copy_to_clipboard", k, Returned(Host, k, ~ok))

(***************************************************************************)
(* Host page: loading the coordinates                                       *)
(***************************************************************************)
\* const page = 50000: the limit of every request
page == 50000

\* most invocations of loadCoords in one run, most rows in one page
MaxLoads == 2
MaxRows == 2

\* the pages get_coords may answer with: rows {fileId, x, y}, fewer than the limit
Pages == SeqsUpTo(PointPool, MaxRows)

\* an offset that would advance by the limit asked for, not by the rows received
AdvanceByLimit(off, rows) == off + page

\* off += rows.length
Advance(off, rows) == off + Len(rows)

\* for (const r of rows) pts.push({ id: r.fileId, x: r.x, y: r.y })
Pushed(pts, rows) == pts \o [j \in 1..Len(rows) |-> Pt(rows[j].id, rows[j].x, rows[j].y)]

\* loadCoords() is called (choose folder, refresh, end of a scan): it runs up
\* to the await of its first request
StartLoad ==
  /\ loads' = Append(loads, NewLoad)
  /\ last' = Did("loadCoords", Len(loads) + 1, 0, 0, 0)
  /\ UNCHANGED <<storeVars, viewVars, dragVars, selectedIndex, rafQueue, now,
                 pointerVars, centred, canvasVars, jobs, idToPath, currentPath, calls>>

\* a page with rows arrives at invocation i: it is pushed, off advances and the
\* next request is sent
MorePages(i, rows) ==
  /\ loads' = [loads EXCEPT ![i].pts = Pushed(@, rows),
                            ![i].off = Advance(@, rows),
                            ![i].requested = Append(@, Advance(loads[i].off, rows)),
                            ![i].pages = Append(@, rows)]
  /\ last' = Did("get_coords", [load |-> i, rows |-> Len(rows)], 0, 0, 0)
  /\ UNCHANGED <<storeVars, viewVars, dragVars, selectedIndex, rafQueue, now,
                 pointerVars, centred, canvasVars, jobs, idToPath, currentPath, calls>>

\* the empty page arrives at invocation i: break, scatter.setPoints(pts),
\* idToPath.clear(), return
LastPage(i) ==
  /\ StorePoints(loads[i].pts)
  /\ loads' = [loads EXCEPT ![i].phase = "done",
                            ![i].pages = Append(@, <<>>),
                            ![i].setCalls = Append(@, loads[i].pts)]
  /\ idToPath' = EmptyMap
  /\ UNCHANGED <<jobs, currentPath, calls>>

\* the answer to the request invocation i awaits
PageArrives(i, rows) ==
  /\ i \in DOMAIN loads
  /\ loads[i].phase = "awaiting"
  /\ IF Len(rows) = 0 THEN LastPage(i) ELSE MorePages(i, rows)

\* the request invocation i awaits is rejected: the await throws and
\* loadCoords ends there
RequestFails(i) ==
  /\ i \in DOMAIN loads
  /\ loads[i].phase = "awaiting"
  /\ loads' = [loads EXCEPT ![i].phase = "failed"]
  /\ last' = Did("get_coords", [load |-> i, rows |-> -1], 0, 0, 0)
  /\ UNCHANGED <<storeVars, viewVars, dragVars, selectedIndex, rafQueue, now,
                 pointerVars, centred, canvasVars, jobs, idToPath, currentPath, calls>>

(***************************************************************************)
(* Specifications                                                           *)
(***************************************************************************)
IdInputs == Ids \cup {NoId}

\* the host drives the point store and the selection
Next ==
  \/ \E b \in Batches : SetPoints(b)
  \/ \E b \in Batches : Len(points) + Len(b) <= MaxPoints /\ AppendPoints(b, FALSE)
  \/ callerArray /\ 2 * Len(points) <= MaxPoints /\ AppendPoints(<<>>, TRUE)
  \/ \E id \in IdInputs : SetSelectedId(id)
  \/ CenterOnSelected(FALSE)
  \/ Frame

Spec == Init /\ [][Next]_vars

\* the user drives the pointer over an empty view
NextInput ==
  \/ \E b \in Buttons, pos \in Positions, c \in BOOLEAN : MouseDown(b, pos[1], pos[2], c)
  \/ \E b \in Buttons, c \in BOOLEAN : MouseUp(b, c)
  \/ \E pos \in Positions : MouseMove(pos[1], pos[2])
  \/ \E sign \in Signs, pos \in Positions : Wheel(sign, pos[1], pos[2])
  \/ \E pos \in Positions : Click(pos[1], pos[2])

SpecInput == Init /\ [][NextInput]_vars

\* the host loads points once, selects and centres while frames run and time passes
NextAnim ==
  \/ \E b \in Batches : points = <<>> /\ Len(b) = MaxBatch /\ SetPoints(b)
  \/ \E id \in IdInputs : SetSelectedId(id)
  \/ \E smooth \in BOOLEAN :
       (smooth => Len(rafQueue) < MaxQueue) /\ CenterOnSelected(smooth)
  \/ Frame
  \/ \E dt \in TickSteps : Tick(dt)

SpecAnim == Init /\ [][NextAnim]_vars

\* the host loads points once; the user pans with the secondary button and
\* clicks
NextPick ==
  \/ \E b \in Batches : points = <<>> /\ Len(b) = MaxBatch /\ SetPoints(b)
  \/ \E pos \in Positions : MouseDown(2, pos[1], pos[2], TRUE)
  \/ MouseUp(2, TRUE)
  \/ \E pos \in Positions : MouseMove(pos[1], pos[2])
  \/ \E pos \in ClickPositions : Len(jobs) < MaxPicks /\ Click(pos[1], pos[2])

SpecPick == Init /\ [][NextPick]_vars

\* the host loads the coordinates, several times over, while the backend
\* answers the requests in any order
NextLoad ==
  \/ Len(loads) < MaxLoads /\ StartLoad
  \/ \E i \in 1..MaxLoads, rows \in Pages :
       /\ i \in DOMAIN loads
       /\ Len(loads[i].pts) + Len(rows) <= MaxPoints
       /\ PageArrives(i, rows)
  \/ \E i \in 1..MaxLoads : RequestFails(i)

SpecLoad == Init /\ [][NextLoad]_vars

\* the canvas is resized and moved between displays while the host sets
\* points and selects
NextResize ==
  \/ \E size \in ClientSizes, ratio \in Ratios : Resize(size[1], size[2], ratio)
  \/ \E b \in Batches : Len(b) = 1 /\ SetPoints(b)
  \/ \E id \in IdInputs : SetSelectedId(id)

SpecResize == Init /\ [][NextResize]_vars

\* everything that draws: the host sets and appends points, selects and
\* centres (once); frames run, and time passes while a transition is in flight
\* (nothing else reads the clock); the user pans and zooms; the display changes
\* its ratio
NextDraw ==
  \/ \E b \in DrawBatches : SetPoints(b)
  \/ \E b \in DrawBatches : Len(points) + Len(b) <= MaxBatch /\ AppendPoints(b, FALSE)
  \/ \E id \in IdInputs : SetSelectedId(id)
  \/ \E smooth \in BOOLEAN : centred = <<>> /\ CenterOnSelected(smooth)
  \/ Frame
  \/ \E dt \in TickSteps : (\E i \in DOMAIN rafQueue : rafQueue[i].kind = "step") /\ Tick(dt)
  \/ MouseDown(2, 100, 100, TRUE)
  \/ viewChanges < MaxDrawViewChanges /\ MouseMove(460, 320)
  \/ viewChanges < MaxDrawViewChanges /\ Wheel(-1, 100, 100)
  \/ \E ratio \in {FromInt(1), FromInt(2)} : Resize(RectWidth, RectHeight, ratio)

SpecDraw == Init /\ [][NextDraw]_vars

\* the coordinates are loaded at startup; the user clicks; the backend answers
\* the calls of the play queue, or fails them, at any time
NextPlay ==
  \/ \E rows \in Pages :
       Len(loads[1].pts) + Len(rows) <= MaxBatch /\ PageArrives(1, rows)
  \/ \E pos \in ClickPositions : Len(jobs) < MaxPicks /\ Click(pos[1], pos[2])
  \/ \E k \in 1..MaxPicks, path \in Paths : InfoArrives(k, path)
  \/ \E k \in 1..MaxPicks : PlayDone(k)
  \/ \E k \in 1..MaxPicks : CallFails(k)
  \/ \E k \in 1..MaxPicks, ok \in BOOLEAN : ClipSettles(k, ok)

SpecPlay == Init /\ [][NextPlay]_vars

(***************************************************************************)
(* Properties of the point store (under Spec)                               *)
(***************************************************************************)
Indices == 0..(Len(points) - 1)

IdsPresent == {points[i + 1].id : i \in Indices}

\* the indices at which id occurs in the stored sequence
Occurrences(id) == {i \in Indices : points[i + 1].id = id}

\* the greatest index at which id occurs
LastIndexOf(id) == CHOOSE i \in Occurrences(id) : \A j \in Occurrences(id) : j <= i

\* the indices held in cell k of the grid g
CellSet(g, k) == IF k \in DOMAIN g THEN {g[k][j] : j \in DOMAIN g[k]} ELSE {}

\* the places <<key, position in the cell's list>> of the grid that hold index i
GridPlaces(i) ==
  {kj \in UNION {{<<k, j>> : j \in DOMAIN grid[k]} : k \in DOMAIN grid} :
     grid[kj[1]][kj[2]] = i}

\* C1, as stated: every index below points.length is held by the grid exactly
\* once, in the cell keyed by the floors of its point's x / gridSize and
\* y / gridSize, and the grid holds no index outside [0, points.length).
C1_IndexConsistency ==
  /\ \A i \in Indices :
       /\ Cardinality(GridPlaces(i)) = 1
       /\ \A kj \in GridPlaces(i) : kj[1] = KeyOf(points[i + 1])
  /\ \A k \in DOMAIN grid : CellSet(grid, k) \subseteq Indices

\* C2, as stated: when setPoints returns the selection is none, and the redraw
\* it issues draws no highlight.
C2_SetPointsClearsSelection ==
  last.op = "setPoints" => selectedIndex = -1 /\ last.highlights = 0

\* C3, amended: the keys of the id-to-index map are exactly the ids present in
\* the sequence, every id maps to an index in [0, count) whose point has that
\* id, and the mapped indices are exactly the last occurrences of the ids (all
\* of [0, count) when the ids are distinct).
C3_IdMapOntoLastOccurrences ==
  /\ DOMAIN idToIndex = IdsPresent
  /\ \A id \in DOMAIN idToIndex :
       idToIndex[id] \in Indices /\ points[idToIndex[id] + 1].id = id
  /\ {idToIndex[id] : id \in DOMAIN idToIndex} = {LastIndexOf(id) : id \in IdsPresent}
  /\ (\A id \in IdsPresent : Cardinality(Occurrences(id)) = 1)
       => {idToIndex[id] : id \in DOMAIN idToIndex} = Indices

\* a store built by setPoints / appendPoints in which an id occurs twice
C3_Witness ==
  /\ last.op \in {"setPoints", "appendPoints"}
  /\ \E id \in IdsPresent : Cardinality(Occurrences(id)) > 1

\* C3, as stated: the id-to-index map is exactly onto [0, count): its keys are
\* the ids present, every mapped index is in range with the key's id, and every
\* index of [0, count) is the image of some id.
C3_IdMapOnto ==
  /\ DOMAIN idToIndex = IdsPresent
  /\ \A id \in DOMAIN idToIndex :
       idToIndex[id] \in Indices /\ points[idToIndex[id] + 1].id = id
  /\ {idToIndex[id] : id \in DOMAIN idToIndex} = Indices

\* C4: setSelectedId(id), for an id that occurs in the stored sequence, selects
\* the greatest index at which the id occurs.
C4_DuplicateIdResolvesToLast ==
  (last.op = "setSelectedId" /\ last.arg \in IdsPresent)
    => selectedIndex = LastIndexOf(last.arg)

\* setSelectedId was called with an id that occurs more than once
C4_Witness ==
  /\ last.op = "setSelectedId"
  /\ Cardinality(Occurrences(last.arg)) > 1

\* C5, amended: the buffer holds 2 floats per point, and they are the point's
\* coordinates rounded to binary32: data[2i] = Math.fround(points[i].x) and
\* data[2i+1] = Math.fround(points[i].y).
C5_DataMirrorsRounded ==
  /\ Len(data) = 2 * Len(points)
  /\ \A i \in Indices :
       /\ data[2 * i + 1] = Fround(points[i + 1].x)
       /\ data[2 * i + 2] = Fround(points[i + 1].y)

\* after an appendPoints, the store holds a coordinate that binary32 cannot hold
C5_Witness ==
  /\ last.op = "appendPoints"
  /\ \E i \in Indices : Fround(points[i + 1].x) # points[i + 1].x

\* C5, as stated: data.length = 2 * points.length, data[2i] = points[i].x and
\* data[2i+1] = points[i].y.
C5_DataMirrorsExact ==
  /\ Len(data) = 2 * Len(points)
  /\ \A i \in Indices :
       /\ data[2 * i + 1] = points[i + 1].x
       /\ data[2 * i + 2] = points[i + 1].y

\* the ids of the points a step adds to the sequence
AppendedIds == {points'[j].id : j \in (Len(points) + 1)..Len(points')}

\* what a step that appends leaves alone: the points and floats stored before,
\* which indices below n each cell holds, and the map's entries for the ids
\* kept; and everything, with no draw and no upload, when nothing is appended
AppendLeaves(kept) ==
  /\ SubSeq(points', 1, Len(points)) = points
  /\ SubSeq(data', 1, Len(data)) = data
  /\ \A k \in DOMAIN grid \cup DOMAIN grid' :
       {i \in CellSet(grid', k) : i < Len(points)} = CellSet(grid, k)
  /\ \A id \in kept : id \in DOMAIN idToIndex' /\ idToIndex'[id] = idToIndex[id]
  /\ Len(points') = Len(points)
       => /\ UNCHANGED <<storeVars, viewVars, dragVars, selectedIndex, rafQueue, now>>
          /\ last'.draws = 0
          /\ last'.uploads = 0

\* C6, amended: appendPoints leaves the first n points, the first 2n floats
\* and the cells' membership of the indices below n unchanged, and it leaves
\* unchanged the id-to-index entries of the ids that do not occur in the
\* appended points (an id that occurs in them is mapped to its new index);
\* with an empty input nothing changes, nothing is uploaded or drawn.
C6_AppendKeepsOtherEntries ==
  [][last'.op = "appendPoints" => AppendLeaves(DOMAIN idToIndex \ AppendedIds)]_vars

\* appendPoints added, to a nonempty store, points of which one has an id that
\* was already stored
C6_Witness ==
  /\ last.op = "appendPoints"
  /\ last.arg > 0
  /\ last.arg < Len(points)
  /\ \E i, j \in Indices :
       /\ i < Len(points) - last.arg
       /\ j >= Len(points) - last.arg
       /\ points[i + 1].id = points[j + 1].id

\* C6, as stated: appendPoints leaves the first n points, the first 2n floats,
\* the grid membership of the indices below n and every id-to-index entry that
\* existed before the call unchanged; with an empty input nothing changes.
C6_AppendKeepsAllEntries ==
  [][last'.op = "appendPoints" => AppendLeaves(DOMAIN idToIndex)]_vars

(***************************************************************************)
(* Properties of the interaction controller (under SpecInput)               *)
(***************************************************************************)
\* C7, amended: the controller is Panning exactly when button 2 has been
\* pressed on the canvas since the most recent release (since construction, if
\* nothing was released yet), whatever was pressed after it; after a release,
\* of any button, anywhere, it is Idle.
C7_PanningSinceSecondaryPress ==
  /\ dragging <=> 2 \in pressed
  /\ lastButton.kind = "up" => ~dragging

\* a drag is on and the most recent press is one of the primary button
C7_Witness ==
  /\ dragging
  /\ lastButton.kind = "down"
  /\ lastButton.button = 0

\* C7, as stated: the controller is Panning exactly when the most recent
\* press/release event was a press of button 2 on the canvas, and a release
\* leaves it Idle.
C7_PanningIffLastIsSecondaryPress ==
  /\ dragging <=> (lastButton.kind = "down" /\ lastButton.button = 2 /\ lastButton.onCanvas)
  /\ lastButton.kind = "up" => ~dragging

\* C8: a mousemove received while Idle leaves scale, tx, ty, the recorded
\* pointer position and the drag flag unchanged, draws nothing and throws
\* nothing.
C8_IdleMoveIgnored ==
  [][\A pos \in Positions :
       (~dragging /\ MouseMove(pos[1], pos[2]))
         => /\ UNCHANGED <<viewVars, dragVars>>
            /\ last'.draws = 0
            /\ ~last'.threw]_vars

\* a mousemove was handled while Idle
C8_Witness ==
  /\ ~dragging
  /\ last.op = "mousemove"
  /\ last.draws = 0

\* |w2 - w1| * sc <= 2^-50 * max(|w1| * sc, |t|): the world coordinates w1 and
\* w2 are shown, at scale sc and translation t, at the same place up to the
\* rounding of the four operations between them
SamePlace(w1, w2, sc, t) ==
  ~FLess(Scaled(FMax(FMul(FAbs(w1), sc), FAbs(t)), -50),
         FMul(FAbs(FSub(w2, w1)), sc))

\* C9, amended: after a wheel event scale' = scale * 1.1^(-sign(deltaY)), and
\* the world coordinate under the cursor computed with the post-zoom transform
\* equals the one computed with the pre-zoom transform up to rounding, on both
\* axes: |w' - w| * scale' <= 2^-50 * max(|w| * scale', |t'|) in binary64.
C9_ZoomAnchoredUpToRounding ==
  last.op = "wheel" =>
    /\ scale = FMul(last.arg.scale, ZoomFactor(last.arg.sign))
    /\ SamePlace(last.arg.wx, WorldAt(last.arg.sx, tx, scale), scale, tx)
    /\ SamePlace(last.arg.wy, WorldAt(last.arg.sy, ty, scale), scale, ty)

\* a wheel event zoomed a view that an earlier event had already changed
C9_Witness ==
  /\ last.op = "wheel"
  /\ last.arg.sign # 0
  /\ viewChanges > 1

\* C9, as stated: after a wheel event scale' = scale * 1.1^(-sign(deltaY)) and
\* (s - tx') / scale' = (s - tx) / scale on both axes.
C9_ZoomAnchoredExactly ==
  last.op = "wheel" =>
    /\ scale = FMul(last.arg.scale, ZoomFactor(last.arg.sign))
    /\ WorldAt(last.arg.sx, tx, scale) = last.arg.wx
    /\ WorldAt(last.arg.sy, ty, scale) = last.arg.wy

(***************************************************************************)
(* Properties of the camera animator (under SpecAnim)                       *)
(***************************************************************************)
\* C10, as stated: when centerOnSelected(false) returns, (tx, ty) is the
\* target (-p.x * scale, -p.y * scale); and a sample of the eased path whose
\* fraction has reached 1 (it schedules no further sample) leaves (tx, ty)
\* exactly at the target computed when centerOnSelected was called.
C10_SampleAtOneIsTarget ==
  /\ (last.op = "centerOnSelected" /\ last.draws = 1)
       => /\ tx = FMul(FNeg(points[selectedIndex + 1].x), scale)
          /\ ty = FMul(FNeg(points[selectedIndex + 1].y), scale)
  /\ (last.op = "frame" /\ last.arg # <<>>)
       => LET s == last.arg[Len(last.arg)]
          IN  ~s.again => tx = s.cb.targetTx /\ ty = s.cb.targetTy

\* the transitions in flight: the step callbacks that are still scheduled
InFlight == {i \in DOMAIN rafQueue : rafQueue[i].kind = "step"}

\* C11, as stated: once no transition is in flight any more, the translation
\* (tx, ty) is the target computed by the most recent centerOnSelected call,
\* whether that call was eased or immediate.
C11_LastCallWins ==
  (InFlight = {} /\ centred # <<>>) => tx = centred[1] /\ ty = centred[2]

(***************************************************************************)
(* Properties of picking                                                    *)
(***************************************************************************)
\* the cell that contains the world position of a click at (clientX, clientY)
ClickCell(clientX, clientY) ==
  <<CellOf(WorldAt(PickSx(clientX - RectLeft), tx, scale)),
    CellOf(WorldAt(PickSy(clientY - RectTop), ty, scale))>>

\* the Chebyshev distance between two cells
Chebyshev(k, c) ==
  IF Abs(k[1] - c[1]) > Abs(k[2] - c[2]) THEN Abs(k[1] - c[1]) ELSE Abs(k[2] - c[2])

\* the cells of the grid (each holds at least one index) within n cells of c
CellsWithin(n, c) == {k \in DOMAIN grid : Chebyshev(k, c) <= n}

\* C12, as stated: a click delivers exactly one result to onPick, within the
\* handler; the result is none exactly when no cell of the grid lies within
\* Chebyshev distance 48 of the cell of the click (so always when the store is
\* empty), and a point otherwise; and the click changes no state of the viewer.
C12_PickNoneIffNothingNear ==
  /\ [](last.op = "click" =>
          /\ Len(last.arg.onPick) = 1
          /\ (last.arg.onPick[1] = NoPick
                <=> CellsWithin(48, ClickCell(last.arg.clientX, last.arg.clientY)) = {})
          /\ (last.arg.onPick[1] # NoPick
                => \E i \in DOMAIN points :
                     last.arg.onPick[1][1].id = points[i].id
                       /\ last.arg.onPick[1][1].x = points[i].x
                       /\ last.arg.onPick[1][1].y = points[i].y)
          /\ (points = <<>> => last.arg.onPick[1] = NoPick))
  /\ [][last'.op = "click" =>
          UNCHANGED <<storeVars, viewVars, dragVars, selectedIndex, rafQueue,
                      canvasVars>>]_vars

\* a click with points in the store, none of them within reach
C12_Witness ==
  /\ last.op = "click"
  /\ last.arg.onPick = <<NoPick>>
  /\ points # <<>>

\* the nearest ring around cell c that holds a cell of the grid
NearestRing(c) ==
  CHOOSE r \in 0..maxR :
    /\ \E k \in DOMAIN grid : Chebyshev(k, c) = r
    /\ \A k \in DOMAIN grid : Chebyshev(k, c) >= r

\* the entries <<cell, place in the cell's list>> of the grid in ring r around c
RingEntries(r, c) ==
  {e \in (DOMAIN grid) \X (1..Len(points)) :
     Chebyshev(e[1], c) = r /\ e[2] <= Len(grid[e[1]])}

\* scan order: dy ascending, then dx ascending, then the order of insertion
ScannedBefore(e, f) ==
  \/ e[1][2] < f[1][2]
  \/ e[1][2] = f[1][2] /\ e[1][1] < f[1][1]
  \/ e[1] = f[1] /\ e[2] < f[2]

\* the point of an entry, with its distance in pixels to the click
EntryCandidate(e, clientX, clientY) ==
  Candidate(points[grid[e[1]][e[2]] + 1],
            DistPx(points[grid[e[1]][e[2]] + 1], clientX - RectLeft, clientY - RectTop))

\* the candidates of all entries of ring r around the cell of the click
RingCandidates(r, clientX, clientY) ==
  [e \in RingEntries(r, ClickCell(clientX, clientY)) |-> EntryCandidate(e, clientX, clientY)]

\* best is the nearest of the candidates cs, and the first scanned of the nearest
FirstNearest(best, cs) ==
  \E e \in DOMAIN cs :
    /\ cs[e] = best
    /\ \A f \in DOMAIN cs :
         /\ ~FLess(cs[f].distPx, best.distPx)
         /\ (cs[f].distPx = best.distPx /\ f # e) => ScannedBefore(e, f)

\* C14, as stated: when a click finds a point, it is a point of the nearest
\* ring r* (in 0..48) that holds one, at the minimum distance in pixels among
\* the points of that ring and, of those at that distance, the first in scan
\* order; the cells looked up are those of the rings 0..r*, one lookup each:
\* every offset of a ring is distinct and at Chebyshev distance r, and the
\* lookups made are as many as the square of side 2 r* + 1 has cells.
C14_FirstNearestOfNearestRing ==
  (last.op = "click" /\ last.arg.onPick[1] # NoPick) =>
    \E r \in {NearestRing(ClickCell(last.arg.clientX, last.arg.clientY))} :
      /\ \E cs \in {RingCandidates(r, last.arg.clientX, last.arg.clientY)} :
           FirstNearest(last.arg.onPick[1][1], cs)
      /\ \A j \in DOMAIN Rings[r] : Chebyshev(Rings[r][j], <<0, 0>>) = r
      /\ Cardinality({Rings[r][j] : j \in DOMAIN Rings[r]}) = Len(Rings[r])
      /\ last.arg.gets = (2 * r + 1) * (2 * r + 1)

\* a click that finds two points of the nearest ring at the same distance
C14_Witness ==
  /\ last.op = "click"
  /\ last.arg.onPick[1] # NoPick
  /\ \E cs \in {RingCandidates(NearestRing(ClickCell(last.arg.clientX, last.arg.clientY)),
                               last.arg.clientX, last.arg.clientY)} :
       \E e, f \in DOMAIN cs :
         /\ e # f
         /\ points[grid[e[1]][e[2]] + 1] # points[grid[f[1]][f[2]] + 1]
         /\ cs[e].distPx = cs[f].distPx
         /\ cs[e] = last.arg.onPick[1][1]

(***************************************************************************)
(* Properties of loading                                                    *)
(***************************************************************************)
\* the rows of the first n pages, one after the other
RECURSIVE RowsOf(_, _)
RowsOf(ps, n) == IF n = 0 THEN <<>> ELSE RowsOf(ps, n - 1) \o ps[n]

\* C13, as stated: every invocation of loadCoords, whatever other invocations
\* are in flight, asks for offset 0 and then, after each page, for the offset
\* advanced by the rows received so far; it asks for nothing after the first
\* empty page; and it calls setPoints exactly once, on that empty page, with all
\* the rows received in order (and not at all before).
C13_PagesThenOneSetPoints ==
  \A i \in DOMAIN loads :
    LET ld == loads[i]
        n == Len(ld.pages)
    IN  /\ Len(ld.requested) = n + (IF ld.phase = "done" THEN 0 ELSE 1)
        /\ \A j \in DOMAIN ld.requested : ld.requested[j] = Len(RowsOf(ld.pages, j - 1))
        /\ \A j \in 1..n : ld.pages[j] = <<>> <=> (j = n /\ ld.phase = "done")
        /\ ld.setCalls = IF ld.phase = "done" THEN <<RowsOf(ld.pages, n)>> ELSE <<>>

\* two invocations are done, each after two pages with rows and the empty
\* page; the store holds what the first one set, so it ended after the second
\* one did: the two were in flight together
C13_Witness ==
  /\ Len(loads) = 2
  /\ \A i \in DOMAIN loads : loads[i].phase = "done" /\ Len(loads[i].pages) = 3
  /\ loads[1].setCalls # loads[2].setCalls
  /\ points = loads[1].setCalls[1]

(***************************************************************************)
(* Properties of the canvas size                                            *)
(***************************************************************************)
\* the notification just handled repeats the one handled just before it
Repeated ==
  /\ last.op = "resize"
  /\ last.arg.earlier # <<>>
  /\ last.arg.earlier[1].clientWidth = last.arg.clientWidth
  /\ last.arg.earlier[1].clientHeight = last.arg.clientHeight
  /\ last.arg.earlier[1].ratio = last.arg.ratio

\* C17, amended: a notification assigns the canvas size and redraws (once)
\* exactly when the size it computes differs from the current one, and then the
\* canvas has the computed size; so the second of two identical notifications
\* in a row does neither.
C17_ResizeOnlyOnChange ==
  /\ [](last.op = "resize" =>
          /\ last.draws = (IF last.arg.resized THEN 1 ELSE 0)
          /\ canvasWidth = DisplaySize(last.arg.clientWidth, Dpr(last.arg.ratio))
          /\ canvasHeight = DisplaySize(last.arg.clientHeight, Dpr(last.arg.ratio)))
  /\ [][last'.op = "resize" =>
          (last'.arg.resized <=> canvasVars' # canvasVars)]_vars
  /\ [](Repeated => ~last.arg.resized)

\* a notification that changed the size was repeated, and changed nothing
C17_Witness ==
  /\ Repeated
  /\ last.arg.earlier[1].resized
  /\ last.draws = 0
  /\ canvasWidth = 451

\* C17, as stated: of two identical notifications in a row, the first performs
\* exactly one reallocation and redraw and the second none.
C17_FirstResizesSecondNot ==
  Repeated => last.arg.earlier[1].resized /\ ~last.arg.resized

(***************************************************************************)
(* Properties of drawing                                                    *)
(***************************************************************************)
\* the handler that ran last changed the store: setPoints, or appendPoints
\* with at least one point
StoreChanged ==
  \/ last.op = "setPoints"
  \/ last.op = "appendPoints" /\ last.arg > 0

\* C15, as stated: setPoints and a non-empty appendPoints are followed by
\* exactly one upload, in the one redraw they trigger; no other handler uploads,
\* whatever it redraws for (pan, zoom, setSelectedId, centerOnSelected and its
\* samples, resize, the first frame); and needsUpload is false whenever no
\* handler is executing.
C15_UploadOncePerStoreChange ==
  /\ needsUpload = FALSE
  /\ StoreChanged => last.draws = 1 /\ last.uploads = 1
  /\ ~StoreChanged => last.uploads = 0

\* a sample of the eased path has redrawn a store of two points, built by
\* setPoints and appendPoints, after a pan or zoom and a change of the canvas
\* size: no upload
C15_Witness ==
  /\ last.op = "frame"
  /\ last.arg # <<>>
  /\ last.draws = 1
  /\ last.uploads = 0
  /\ Len(points) = 2
  /\ viewChanges = 1
  /\ canvasWidth = 2 * RectWidth

(***************************************************************************)
(* Properties of the listeners that do not pan                              *)
(***************************************************************************)
\* C16, as stated: whether the controller is Idle or Panning, a wheel event
\* changes nothing but scale, tx and ty, and a click changes no state of the
\* viewer; so the drag flag and the recorded pointer position are the same
\* before and after either event.
C16_WheelAndClickKeepPanState ==
  [][/\ last'.op = "wheel" =>
          UNCHANGED <<storeVars, dragVars, selectedIndex, rafQueue, canvasVars>>
     /\ last'.op = "click" =>
          UNCHANGED <<storeVars, viewVars, dragVars, selectedIndex, rafQueue, canvasVars>>]_vars

\* a wheel event has zoomed the view while a drag is on
C16_Witness ==
  /\ last.op = "wheel"
  /\ dragging
  /\ scale # FOne
  /\ lastX = 460

(***************************************************************************)
(* Properties of the play queue                                             *)
(***************************************************************************)
\* the play_file calls made for the k-th pick
CallsOf(k) == {c \in DOMAIN calls : calls[c].job = k}

\* C18, as stated: whenever the calls of the backend complete or fail, the
\* play_file calls are issued in the order of the picks (at most one per pick,
\* for the id picked); the processing of a pick has not begun before that of
\* every earlier pick has finished; and a failure does not block the picks
\* after it: no promise of the queue is ever rejected, and a pick whose
\* predecessors have all finished, failed or not, is being processed.
C18_PlaysInPickOrder ==
  /\ \A a, b \in DOMAIN calls : a < b => calls[a].job < calls[b].job
  /\ \A c \in DOMAIN calls : calls[c].id = jobs[calls[c].job].id
  /\ \A k \in DOMAIN jobs :
       /\ jobs[k].phase # "rejected"
       /\ jobs[k].phase # "waiting" <=> \A j \in 1..(k - 1) : jobs[j].phase = "done"
       /\ (jobs[k].phase \in {"play", "clip"} \/ (jobs[k].phase = "done" /\ ~jobs[k].failed))
            => Cardinality(CallsOf(k)) = 1
       /\ jobs[k].phase \in {"waiting", "info"} => CallsOf(k) = {}

\* the processing of the first pick failed before it could play, and the
\* second pick has been played and is finished
C18_Witness ==
  /\ Len(jobs) = 2
  /\ jobs[1].phase = "done" /\ jobs[1].failed /\ CallsOf(1) = {}
  /\ jobs[2].phase = "done" /\ ~jobs[2].failed
  /\ currentPath = jobs[2].path

(***************************************************************************)
(* Properties of centring under input                                       *)
(***************************************************************************)
\* the last handler was a frame whose last sample ended a transition
TransitionEnded ==
  /\ last.op = "frame"
  /\ last.arg # <<>>
  /\ ~last.arg[Len(last.arg)].again

\* where the point p is drawn, in NDC, under the current view
NdcOf(p) == <<FAdd(FMul(p.x, scale), tx), FAdd(FMul(p.y, scale), ty)>>

\* C19, as stated: when an eased transition finishes, the selected point is at
\* the NDC origin under the scale and translation of that moment, whatever
\* wheel and pan events were handled between its samples.
C19_EasedCentringEndsAtOrigin ==
  (TransitionEnded /\ selectedIndex >= 0 /\ selectedIndex < Len(points)) =>
    /\ FIsZero(NdcOf(points[selectedIndex + 1])[1])
    /\ FIsZero(NdcOf(points[selectedIndex + 1])[2])

(***************************************************************************)
(* Properties of the selection                                              *)
(***************************************************************************)
\* C20, as stated: after any sequence of setPoints, appendPoints and
\* setSelectedId calls the selected index is -1 or an index of the store, so
\* centerOnSelected reads an existing point and raises no error.
C20_SelectionIndexValid ==
  /\ selectedIndex = -1 \/ selectedIndex \in Indices
  /\ last.op = "centerOnSelected" => ~last.threw
====
